---------------------------- MODULE Spec2Model ----------------------------
(***************************************************************************)
(* Model of the Equihash solver of src/hide/equi_miner.h (John Tromp's     *)
(* bucketed Wagner solver), XINTREE + ATOMIC build, with the array and the *)
(* XBITMAP form of collisiondata as two builds of the same program.        *)
(*                                                                         *)
(* The geometry is scaled down so that the state space is finite and small:*)
(*   source                     model                                      *)
(*   WN = 200 bits, WK = 9      WN = 8 bits, WK = 3 (odd, as the source    *)
(*                              assumes)                                   *)
(*   byte  = 8 bits             byte = BYTEBITS = 2 bits                   *)
(*   word  = 4 bytes            word = WORDBYTES = 2 bytes                 *)
(*   RESTBITS = 4, BUCKBITS 16  RESTBITS = 1, BUCKBITS = 1                 *)
(*   blake2b output 512 bits    BLAKEBITS = 24 bits                        *)
(*   MAXSOLS = 8                MAXSOLS = 2                                *)
(* Every derived quantity (NBUCKETS, NSLOTS, XFULL, NHASHES, NBLOCKS,      *)
(* hashsize, hashwords, the htlayout fields) is computed by the source's   *)
(* formula from these.  A digit is one model byte: bucket bit, rest bit.   *)
(* In the source a digit is 2.5 bytes, so odd layers skip a leading rest   *)
(* nibble when they extract the next bucket; in the model the digit is     *)
(* byte aligned on every layer.                                            *)
(***************************************************************************)
EXTENDS Integers, Sequences, FiniteSets, TLC

(***************************************************************************)
(* Parameters (equi.h, which is not part of src/, and lines 36-58).        *)
(***************************************************************************)
WN == 8
WK == 3
BYTEBITS == 2
WORDBYTES == 2
BLAKEBITS == 24
RESTBITS == 1
MAXSOLS == 2

NDIGITS == WK + 1
DIGITBITS == WN \div NDIGITS
PROOFSIZE == 2 ^ WK
NHASHES == 2 * (2 ^ DIGITBITS)
HASHESPERBLAKE == BLAKEBITS \div WN
HASHBYTES == WN \div BYTEBITS

BUCKBITS == DIGITBITS - RESTBITS
NBUCKETS == 2 ^ BUCKBITS
SLOTBITS == RESTBITS + 1 + 1
NSLOTS == 2 ^ SLOTBITS
XFULL == NSLOTS \div 4
SLOTMASK == NSLOTS - 1
NRESTS == 2 ^ RESTBITS

\* NRESTS, NSLOTS and XFULL of a build with RESTBITS = rb (lines 46-54).
NRESTSOf(rb) == 2 ^ rb
NSLOTSOf(rb) == 2 ^ (rb + 1 + 1)
XFULLOf(rb) == NSLOTSOf(rb) \div 4

\* RESTBITS of the build whose collisiondata specification SpecCD runs, one
\* more than the solver's, so that a rest class holds several partners.
CDRESTBITS == 2
NBLOCKS == (NHASHES + HASHESPERBLAKE - 1) \div HASHESPERBLAKE

\* Bounds of the model.
MaxThreads == 2
MaxRuns == 2
MaxRunsMT == 1
CDMaxSlots == 6
CDMaxClears == 2

\* The value of an object that was never initialised; ++ keeps it so.
Indet == -1

Min(a, b) == IF a < b THEN a ELSE b

RECURSIVE BitXor(_, _)
BitXor(a, b) ==
  IF a = 0 THEN b
  ELSE IF b = 0 THEN a
  ELSE 2 * BitXor(a \div 2, b \div 2) + ((a + b) % 2)

RECURSIVE BitOr(_, _)
BitOr(a, b) ==
  IF a = 0 THEN b
  ELSE IF b = 0 THEN a
  ELSE 2 * BitOr(a \div 2, b \div 2) + (IF a % 2 = 1 \/ b % 2 = 1 THEN 1 ELSE 0)

\* A faulty ffs that always reports the lowest bit.
FfsLowest(x) == IF x = 0 THEN 0 ELSE 1

\* __builtin_ffsll: one plus the index of the least significant set bit, 0 for 0.
RECURSIVE Ffs(_)
Ffs(x) == IF x = 0 THEN 0 ELSE IF x % 2 = 1 THEN 1 ELSE 1 + Ffs(x \div 2)

(***************************************************************************)
(* tree: the bit-field node.  Assignments to a bit-field keep the low bits.*)
(***************************************************************************)
\* A faulty node whose two slot ids are exchanged.
TreeSwapped(b, s0, s1, x) ==
  [bucketid |-> b % NBUCKETS, slotid0 |-> s1 % NSLOTS,
   slotid1 |-> s0 % NSLOTS, xhash |-> x % NRESTS]

Tree(b, s0, s1, x) ==
  [bucketid |-> b % NBUCKETS, slotid0 |-> s0 % NSLOTS,
   slotid1 |-> s1 % NSLOTS, xhash |-> x % NRESTS]

getindex(t) == t.bucketid * NSLOTS + t.slotid0

\* setindex assigns slotid0 and bucketid of t and leaves its other fields.
setindex(t, idx) ==
  [t EXCEPT !.slotid0 = idx % (SLOTMASK + 1),
            !.bucketid = (idx \div NSLOTS) % NBUCKETS]

(***************************************************************************)
(* hashsize, hashwords and htlayout (XINTREE).                             *)
(***************************************************************************)
hashsize(r) == ((WN - (r + 1) * DIGITBITS) + (BYTEBITS - 1)) \div BYTEBITS

hashwords(bytes) == (bytes + (WORDBYTES - 1)) \div WORDBYTES

HASHWORDS0 == hashwords(hashsize(0))

htlayout(r) ==
  LET nexthashbytes == hashsize(r)
      nexthashunits == hashwords(nexthashbytes)
      prevhashbytes == IF r > 0 THEN hashsize(r - 1) ELSE 0
      prevhashunits == IF r > 0 THEN hashwords(prevhashbytes) ELSE 0
  IN [nexthashunits |-> nexthashunits,
      nextbo |-> nexthashunits * WORDBYTES - nexthashbytes,
      prevhashunits |-> prevhashunits,
      prevbo |-> IF r > 0 THEN prevhashunits * WORDBYTES - prevhashbytes ELSE 0,
      dunits |-> IF r > 0 THEN prevhashunits - nexthashunits ELSE 0]

\* The word hash[w] of a stored hash: its WORDBYTES bytes.
WordOf(hash, w) == [k \in 0 .. WORDBYTES - 1 |-> hash[w * WORDBYTES + k]]

\* htlayout::equal compares the last word of the previous layer's hashes only.
equal(htl, hash0, hash1) ==
  WordOf(hash0, htl.prevhashunits - 1) = WordOf(hash1, htl.prevhashunits - 1)

(***************************************************************************)
(* collisiondata of a build with RESTBITS = rb.  xb is TRUE for the        *)
(* XBITMAP form and FALSE for the array form.  One record holds the fields *)
(* of both forms; a form touches only its own.  xx is the rest value whose *)
(* row of xhashslots the pointer xx refers to.                             *)
(***************************************************************************)
Rests == 0 .. NRESTS - 1

CdFresh(rb) ==
  [nxhashslots |-> [x \in 0 .. NRESTSOf(rb) - 1 |-> Indet],
   xhashslots |-> [x \in 0 .. NRESTSOf(rb) - 1 |->
                     [k \in 0 .. XFULLOf(rb) - 1 |-> Indet]],
   xx |-> Indet, n0 |-> Indet, n1 |-> Indet,
   xhashmap |-> [x \in 0 .. NRESTSOf(rb) - 1 |-> Indet],
   xmap |-> Indet, s0 |-> Indet]

CdClear(rb, xb, cd) ==
  IF xb THEN [cd EXCEPT !.xhashmap = [x \in 0 .. NRESTSOf(rb) - 1 |-> 0]]
  ELSE [cd EXCEPT !.nxhashslots = [x \in 0 .. NRESTSOf(rb) - 1 |-> 0]]

\* The return value of addslot(s1, xh) called on cd.
CdAddslotOk(rb, xb, cd, xh) == xb \/ cd.nxhashslots[xh] < XFULLOf(rb)

\* The collisiondata after addslot(s1, xh).
CdAddslot(rb, xb, cd, s1, xh) ==
  IF xb
  THEN [cd EXCEPT !.xmap = cd.xhashmap[xh],
                  !.xhashmap[xh] = BitOr(cd.xhashmap[xh], 2 ^ s1),
                  !.s0 = -1]
  ELSE LET n1 == cd.nxhashslots[xh]
           c1 == [cd EXCEPT !.n1 = n1, !.nxhashslots[xh] = (n1 + 1) % 256]
       IN IF n1 >= XFULLOf(rb) THEN c1
          ELSE [c1 EXCEPT !.xx = xh, !.xhashslots[xh][n1] = s1 % 256, !.n0 = 0]

\* A faulty nextcollision whose array form runs one entry too far.
NextcollisionInclusive(xb, cd) == IF xb THEN cd.xmap # 0 ELSE cd.n0 <= cd.n1

CdNextcollision(xb, cd) == IF xb THEN cd.xmap # 0 ELSE cd.n0 < cd.n1

\* The collisiondata after slot(); the value slot() returns is CdSlotRet.
CdSlot(xb, cd) ==
  IF xb
  THEN LET ffs == Ffs(cd.xmap)
       IN [cd EXCEPT !.s0 = cd.s0 + ffs, !.xmap = cd.xmap \div (2 ^ ffs)]
  ELSE [cd EXCEPT !.n0 = cd.n0 + 1]

CdSlotRet(xb, cd) ==
  IF xb THEN cd.s0 + Ffs(cd.xmap) ELSE cd.xhashslots[cd.xx][cd.n0]

\* for (; cd.nextcollision(); ) s0 = cd.slot();  the partners in yield order.
RECURSIVE CdPartners(_, _)
CdPartners(xb, cd) ==
  IF CdNextcollision(xb, cd)
  THEN <<CdSlotRet(xb, cd)>> \o CdPartners(xb, CdSlot(xb, cd))
  ELSE <<>>

RECURSIVE CdDrained(_, _)
CdDrained(xb, cd) ==
  IF CdNextcollision(xb, cd) THEN CdDrained(xb, CdSlot(xb, cd)) ELSE cd


(***************************************************************************)
(* The arena.  heap[h] is one calloc'ed digit0: NBUCKETS buckets of NSLOTS *)
(* slots, addressed here by slot number.  trees[r] = heap[r&1] + r/2 is    *)
(* pointer arithmetic on bucket0 pointers: layer r starts r/2 buckets into *)
(* its heap.  The slots past the end of a heap (OOBSLOTS of them can be    *)
(* addressed) are memory the program does not own.                         *)
(***************************************************************************)
HEAPSLOTS == NBUCKETS * NSLOTS
OOBSLOTS == ((WK - 1) \div 2) * NSLOTS
HASHUNITBYTES == HASHWORDS0 * WORDBYTES

ZeroTree == [bucketid |-> 0, slotid0 |-> 0, slotid1 |-> 0, xhash |-> 0]
ZeroSlot == [attr |-> ZeroTree, hash |-> [k \in 0 .. HASHUNITBYTES - 1 |-> 0]]

\* &trees[r][bucketid][slot] - heap[r&1], in slots.
SlotAddr(r, bucketid, slot) == ((r \div 2) + bucketid) * NSLOTS + slot

HeapOf(r) == r % 2

InHeap(addr) == addr < HEAPSLOTS

\* trees[r][bucketid][slot]
SlotAt(hp, r, bucketid, slot) == hp[HeapOf(r)][SlotAddr(r, bucketid, slot)]

(***************************************************************************)
(* orderindices, listindices0, listindices1 on sequences (1-based).        *)
(***************************************************************************)
\* A faulty orderindices that never swaps the halves.
KeepOrder(indices, size) == indices

orderindices(indices, size) ==
  IF indices[1] > indices[size + 1]
  THEN SubSeq(indices, size + 1, 2 * size) \o SubSeq(indices, 1, size)
  ELSE indices

\* The node is bound by a quantifier, so that each level evaluates it once.
RECURSIVE listindices0(_, _, _)
RECURSIVE listindices1(_, _, _)
listindices0(hp, r, t0) ==
  LET List(t) ==
        IF r = 0 THEN <<getindex(t)>>
        ELSE LET r1 == r - 1
                 size == 2 ^ r1
             IN orderindices(
                  listindices1(hp, r1, SlotAt(hp, r1, t.bucketid, t.slotid0).attr)
                  \o listindices1(hp, r1, SlotAt(hp, r1, t.bucketid, t.slotid1).attr),
                  size)
  IN CHOOSE v \in {List(t) : t \in {t0}} : TRUE

listindices1(hp, r, t0) ==
  LET List(t) ==
        LET r1 == r - 1
            size == 2 ^ r1
        IN orderindices(
             listindices0(hp, r1, SlotAt(hp, r1, t.bucketid, t.slotid0).attr)
             \o listindices0(hp, r1, SlotAt(hp, r1, t.bucketid, t.slotid1).attr),
             size)
  IN CHOOSE v \in {List(t) : t \in {t0}} : TRUE

\* qsort(prf, PROOFSIZE, sizeof(u32), &compu32): ascending.  The arguments
\* are bound by a quantifier, so that each level evaluates them once.
RECURSIVE SortInsert(_, _)
SortInsert(s0, x0) ==
  LET Ins(s, x) ==
        IF s = <<>> THEN <<x>>
        ELSE IF x <= Head(s) THEN <<x>> \o s
        ELSE <<Head(s)>> \o SortInsert(Tail(s), x)
  IN CHOOSE v \in {Ins(s, x) : s \in {s0}, x \in {x0}} : TRUE

RECURSIVE qsort(_)
qsort(s0) ==
  LET Sort(s) == IF s = <<>> THEN <<>> ELSE SortInsert(qsort(Tail(s)), Head(s))
  IN CHOOSE v \in {Sort(s) : s \in {s0}} : TRUE

\* A faulty duplicate test that lets equal neighbours through.
NoDescent(prf) == \A p \in {prf} : \A i \in 2 .. Len(p) : p[i] >= p[i - 1]

\* candidate's test after the sort: no prf[i] <= prf[i-1].
NoDuplicate(prf) == \A p \in {prf} : \A i \in 2 .. Len(p) : p[i] > p[i - 1]


(***************************************************************************)
(* The blake2b black box.  A (header, nonce) selects one assignment of     *)
(* WN-bit hashes (HASHBYTES bytes, first digit first) to the indices       *)
(* 0 .. NBLOCKS*HASHESPERBLAKE-1 that digit0 generates.  The assignments   *)
(* the solver is run on:                                                   *)
(*   1  leaves 0..7 are one solution whose layer-2 nodes fall in the last  *)
(*      bucket; leaf 8 is an extra hash in the rest class of leaves 0, 3   *)
(*   2  the same solution shape, layer-2 nodes in bucket 0                 *)
(*   3  all nine hashes in bucket 0 of layer 0, equal in their last word   *)
(*   4  leaves 0..3 share digit 0 and pair up in two ways that both        *)
(*      complete to a tree with leaves 4..7                                *)
(*   5  as 4, with the third pairing of leaves 0..3 alive as well          *)
(***************************************************************************)
NLEAVES == NBLOCKS * HASHESPERBLAKE

HashFamily ==
  << << <<0,0,0,0>>, <<1,0,0,0>>, <<1,1,2,1>>, <<0,1,1,0>>, <<2,0,0,0>>,
        <<2,2,0,1>>, <<3,0,0,0>>, <<3,2,3,0>>, <<0,2,0,0>> >>,
     << <<0,0,0,0>>, <<1,0,0,0>>, <<1,2,0,1>>, <<0,2,1,0>>, <<2,0,0,0>>,
        <<2,3,0,1>>, <<3,0,0,0>>, <<3,3,1,0>>, <<0,3,0,0>> >>,
     << <<0,0,0,0>>, <<0,1,0,0>>, <<1,0,0,0>>, <<0,2,0,0>>, <<1,1,0,0>>,
        <<0,3,0,0>>, <<1,2,0,0>>, <<0,0,0,0>>, <<1,3,0,0>> >>,
     << <<0,0,0,0>>, <<0,1,1,0>>, <<0,2,3,0>>, <<0,3,0,0>>, <<2,0,0,0>>,
        <<2,0,1,1>>, <<3,0,0,0>>, <<3,0,3,1>>, <<1,0,0,0>> >>,
     << <<0,0,0,0>>, <<0,1,1,0>>, <<0,2,3,0>>, <<0,3,0,1>>, <<2,0,0,0>>,
        <<2,0,1,1>>, <<3,0,0,0>>, <<3,0,3,0>>, <<1,0,0,0>> >> >>

Nonces == 1 .. Len(HashFamily)

\* The other nonce the driver may move on to.
OtherNonce(k) == (k % Len(HashFamily)) + 1

\* ph[k] for the hash of leaf idx under nonce nc.
Ph(nc, idx, k) == HashFamily[nc][idx + 1][k + 1]

VARIABLES
  nthreads,   \* equi::nthreads
  xbitmap,    \* the build: XBITMAP defined or not
  nonce,      \* the (header, nonce) keyed into blake_ctx; 0 before setnonce
  phase,      \* "constructed", "armed" (setnonce done), "running"
  run,        \* number of setnonce calls so far
  heap,       \* heap[0], heap[1] and the memory that follows each
  nslots,     \* equi::nslots
  sols,       \* equi::sols
  nsols,      \* equi::nsols
  xfull,      \* equi::xfull
  hfull,      \* equi::hfull
  bfull,      \* equi::bfull
  th,         \* per worker: position and the locals of the digit functions
  barry,      \* equi::barry
  crashed,    \* the process died on an access outside the heaps
  attempts,   \* history: getslot calls per layer and bucket in this run
  wcnt,       \* history: slot writes per layer, bucket and slot in this run
  leaves,     \* history: the indices digit0 passed to setindex in this run
  solroot,    \* history: the tree node each sols[] entry was walked from
  first,      \* history: the outcome of the first run
  drains,     \* history: the workers that called getnslots, per layer and bucket
  waits,      \* history: the barrier waits each worker has made in this run
  cdt         \* the collisiondata under test (specification SpecCD)

vars ==
  <<nthreads, xbitmap, nonce, phase, run, heap, nslots, sols, nsols, xfull,
    hfull, bfull, th, barry, crashed, attempts, wcnt, leaves, solroot, first,
    drains, waits, cdt>>

Threads == 0 .. nthreads - 1
AllThreads == 0 .. MaxThreads - 1
Buckets == 0 .. NBUCKETS - 1
Layers == 0 .. WK - 1

ThFresh(pcv) ==
  [pc |-> pcv, r |-> 0, block |-> 0, i |-> 0, bucketid |-> 0, bsize |-> 0,
   s1 |-> 0, s0 |-> 0, at |-> "bucket", cd |-> CdFresh(RESTBITS), soli |-> 0]

\* The fields of a node that candidate() reads.
RootOf(t) == [bucketid |-> t.bucketid, slotid0 |-> t.slotid0, slotid1 |-> t.slotid1]

NoRoot == [bucketid |-> Indet, slotid0 |-> Indet, slotid1 |-> Indet]

HistoryFresh ==
  /\ attempts' = [r \in Layers |-> [b \in Buckets |-> 0]]
  /\ wcnt' = [r \in Layers |-> [b \in Buckets |-> [s \in 0 .. NSLOTS |-> 0]]]
  /\ leaves' = {}
  /\ solroot' = [k \in 0 .. MAXSOLS - 1 |-> NoRoot]
  /\ drains' = [r \in Layers |-> [b \in Buckets |-> <<>>]]
  /\ waits' = [t \in AllThreads |-> 0]

\* The collisiondata local of a digit function, as declared: both builds'
\* fields, nothing initialised, nothing fed.
CdtIdle ==
  [a |-> CdFresh(CDRESTBITS), b |-> CdFresh(CDRESTBITS), cleared |-> FALSE,
   clears |-> 0, total |-> 0,
   fed |-> <<>>, oka |-> <<>>, okb |-> <<>>, ya |-> <<>>, yb |-> <<>>]

(***************************************************************************)
(* equi::equi(n_threads): the state after construction.  The heaps, nslots *)
(* and sols come from calloc; nsols, xfull, hfull and bfull are not        *)
(* initialised by the constructor.                                         *)
(***************************************************************************)
Constructed ==
  /\ nonce = 0
  /\ phase = "constructed"
  /\ run = 0
  /\ heap = [h \in 0 .. 1 |-> [a \in 0 .. HEAPSLOTS + OOBSLOTS - 1 |-> ZeroSlot]]
  /\ nslots = [h \in 0 .. 1 |-> [b \in Buckets |-> 0]]
  /\ sols = [k \in 0 .. MAXSOLS - 1 |-> [j \in 1 .. PROOFSIZE |-> 0]]
  /\ nsols = Indet
  /\ xfull = Indet
  /\ hfull = Indet
  /\ bfull = Indet
  /\ th = [t \in Threads |-> ThFresh("idle")]
  /\ barry = [count |-> 0, waiting |-> {}]
  /\ crashed = FALSE
  /\ attempts = [r \in Layers |-> [b \in Buckets |-> 0]]
  /\ wcnt = [r \in Layers |-> [b \in Buckets |-> [s \in 0 .. NSLOTS |-> 0]]]
  /\ leaves = {}
  /\ solroot = [k \in 0 .. MAXSOLS - 1 |-> NoRoot]
  /\ drains = [r \in Layers |-> [b \in Buckets |-> <<>>]]
  /\ waits = [t \in AllThreads |-> 0]
  /\ first = [valid |-> FALSE, nonce |-> 0, nsols |-> 0, sols |-> sols]
  /\ cdt = CdtIdle

Init ==
  /\ nthreads \in 1 .. MaxThreads
  /\ xbitmap \in BOOLEAN
  /\ Constructed

(***************************************************************************)
(* equi::setnonce.  The memset clears NBUCKETS counters: nslots[0] only.   *)
(***************************************************************************)
SetNonceCounters(ns) == [ns EXCEPT ![0] = [b \in Buckets |-> 0]]

\* A faulty setnonce that leaves nsols as the previous run left it.
SetnonceKeepsNsols(ns, n) ==
  [nslots |-> SetNonceCounters(ns), nsols |-> IF n = Indet THEN 0 ELSE n]

\* setnonce on the two fields it assigns: the memset, and nsols = 0.
setnonce(ns, n) == [nslots |-> SetNonceCounters(ns), nsols |-> 0]

SetNonce ==
  /\ ~crashed
  /\ phase \in {"constructed", "stopped"}
  /\ run < (IF nthreads = 1 THEN MaxRuns ELSE MaxRunsMT)
  /\ \E nc \in Nonces :
       /\ run > 0 => nc \in {nonce, OtherNonce(nonce)}
       /\ nonce' = nc
  /\ nslots' = setnonce(nslots, nsols).nslots
  /\ nsols' = setnonce(nslots, nsols).nsols
  /\ phase' = "armed"
  /\ run' = run + 1
  /\ first' = IF run = 1
              THEN [valid |-> TRUE, nonce |-> nonce, nsols |-> nsols, sols |-> sols]
              ELSE first
  /\ HistoryFresh
  /\ UNCHANGED <<nthreads, xbitmap, heap, sols, xfull, hfull, bfull, th, barry,
                 crashed, cdt>>

\* The driver starts nthreads workers on worker().
Spawn ==
  /\ ~crashed
  /\ phase = "armed"
  /\ phase' = "running"
  /\ th' = [t \in Threads |-> ThFresh("bar592")]
  /\ UNCHANGED <<nthreads, xbitmap, nonce, run, heap, nslots, sols, nsols,
                 xfull, hfull, bfull, barry, crashed, attempts, wcnt, leaves,
                 solroot, first, drains, waits, cdt>>

\* The driver joins the workers.
Join ==
  /\ ~crashed
  /\ phase = "running"
  /\ \A t \in Threads : th[t].pc = "done"
  /\ phase' = "stopped"
  /\ th' = [t \in Threads |-> ThFresh("idle")]
  /\ UNCHANGED <<nthreads, xbitmap, nonce, run, heap, nslots, sols, nsols,
                 xfull, hfull, bfull, barry, crashed, attempts, wcnt, leaves,
                 solroot, first, drains, waits, cdt>>


(***************************************************************************)
(* getslot, getnslots and a non-atomic counter++.                          *)
(***************************************************************************)
\* getslot(r, bucketi): the value returned, and nslots afterwards.
getslot(ns, r, bucketi) == ns[r % 2][bucketi]

getslotAfter(ns, r, bucketi) == [ns EXCEPT ![r % 2][bucketi] = @ + 1]

\* getnslots(r, bid): the value returned, and nslots afterwards.
getnslots(ns, r, bid) == Min(ns[r % 2][bid], NSLOTS)

\* A faulty getnslots without nslot = 0.
getnslotsKeeps(ns, r, bid) == ns

getnslotsAfter(ns, r, bid) == [ns EXCEPT ![r % 2][bid] = 0]

\* xfull++, hfull++, bfull++ are plain read-modify-writes of shared u32s.
\* Racing with another worker inside a digit the write may be of any
\* earlier value plus one; an uninitialised counter stays indeterminate.
RacyInc(t, c) ==
  IF c = Indet THEN {Indet}
  ELSE IF \E u \in Threads : u # t /\ th[u].pc \in {"digit0", "digit"}
  THEN 1 .. (c + 1)
  ELSE {c + 1}

\* A faulty bucket-full test that lets every slot number through.
AlwaysFree(slot) == TRUE

\* if (slot >= NSLOTS) { bfull++; continue; }
SlotFree(slot) == slot < NSLOTS

getxhash0(pslot) == pslot.attr.xhash

getxhash1(pslot) == pslot.attr.xhash

\* A faulty candidate() without the duplicate test.
AcceptAll(hp, t) == TRUE

\* candidate(t) up to the fetch-add: does it claim a solution index?
CandidateAccepts(hp, t) == NoDuplicate(qsort(listindices1(hp, WK, t)))

\* A faulty digitK that hands candidate() the first two slots of the bucket.
XortFirst(bucketid, s0, s1) ==
  [bucketid |-> bucketid, slotid0 |-> 0, slotid1 |-> 1, xhash |-> Indet]

\* The node digitK hands to candidate: tree xort with its three fields set.
Xort(bucketid, s0, s1) ==
  [bucketid |-> bucketid, slotid0 |-> s0, slotid1 |-> s1, xhash |-> Indet]

(***************************************************************************)
(* The loops of digitodd, digiteven and digitK.  A worker inside one of    *)
(* them rests only in front of an operation on shared memory:              *)
(*   at = "bucket": getnslots of the bucket it is about to process;        *)
(*   at = "slot":   an addslot that fails, followed by xfull++ (digitodd,  *)
(*                  digiteven);                                            *)
(*   at = "coll":   cd.slot() yielding a pair that is counted in hfull or  *)
(*                  inserted (digitodd, digiteven), or that candidate()    *)
(*                  accepts (digitK);                                      *)
(*   at = "store":  the second walk of candidate() into sols[soli].        *)
(* Settle runs the worker's private steps up to the next such point: loop  *)
(* tests, successful addslot calls, reads of the previous layer (which no  *)
(* worker writes during the digit) and, in digitK, pairs that are not      *)
(* accepted.  When the bucket loop ends the worker is at the next barrier. *)
(* The worker's record is bound by a quantifier, so that each level of the *)
(* recursion evaluates it once.                                            *)
(***************************************************************************)
\* A faulty bucket loop that steps by one whatever the number of workers.
NextBucketByOne(bucketid) == bucketid + 1

\* for (bucketid = id; bucketid < NBUCKETS; bucketid += nthreads)
NextBucket(bucketid) == bucketid + nthreads

RECURSIVE Settle(_, _)
Settle(hp, me0) ==
  LET Step(me) ==
        LET isK == me.pc = "digitK"
            prevr == IF isK THEN WK - 1 ELSE me.r - 1
        IN IF me.at = "bucket"
           THEN IF me.bucketid < NBUCKETS THEN me
                ELSE IF isK THEN [me EXCEPT !.pc = "bar616"]
                ELSE [me EXCEPT !.pc = "bar605"]
           ELSE IF me.at = "slot"
           THEN IF me.s1 >= me.bsize
                THEN Settle(hp, [me EXCEPT !.bucketid = NextBucket(me.bucketid),
                                           !.at = "bucket"])
                ELSE LET pslot1 == SlotAt(hp, prevr, me.bucketid, me.s1)
                         xh == IF isK \/ me.r % 2 = 1 THEN getxhash0(pslot1)
                               ELSE getxhash1(pslot1)
                     IN IF CdAddslotOk(RESTBITS, xbitmap, me.cd, xh)
                        THEN Settle(hp, [me EXCEPT
                                           !.cd = CdAddslot(RESTBITS, xbitmap, me.cd, me.s1, xh),
                                           !.at = "coll"])
                        ELSE IF isK
                        THEN Settle(hp, [me EXCEPT
                                           !.cd = CdAddslot(RESTBITS, xbitmap, me.cd, me.s1, xh),
                                           !.s1 = me.s1 + 1])
                        ELSE me
           ELSE IF me.at = "coll"
           THEN IF ~CdNextcollision(xbitmap, me.cd)
                THEN Settle(hp, [me EXCEPT !.s1 = me.s1 + 1, !.at = "slot"])
                ELSE IF ~isK THEN me
                ELSE LET s0 == CdSlotRet(xbitmap, me.cd)
                         pslot0 == SlotAt(hp, WK - 1, me.bucketid, s0)
                         pslot1 == SlotAt(hp, WK - 1, me.bucketid, me.s1)
                     IN IF equal(htlayout(WK), pslot0.hash, pslot1.hash)
                           /\ CandidateAccepts(hp, Xort(me.bucketid, s0, me.s1))
                        THEN me
                        ELSE Settle(hp, [me EXCEPT !.cd = CdSlot(xbitmap, me.cd),
                                                   !.s0 = s0])
           ELSE me
  IN CHOOSE settled \in {Step(me) : me \in {me0}} : TRUE

\* The locals of a digit function are dead once the worker is at a barrier.
AtRest(me) ==
  IF me.pc \in {"digit0", "digit", "digitK"} THEN me
  ELSE [ThFresh(me.pc) EXCEPT !.r = me.r]

(***************************************************************************)
(* barrier(&eq->barry) and the control flow of worker().  A worker's pc is *)
(* the source line it stands at.  The barrier was initialised for nthreads *)
(* waiters; the last one to arrive releases them all.                      *)
(***************************************************************************)
BarrierPcs == {"bar592", "bar594", "bar599", "bar603", "bar605", "bar611", "bar616"}

\* digitK(id) entered from line 615.
EnterDigitK(hp, me, id) ==
  AtRest(Settle(hp, [me EXCEPT !.pc = "digitK", !.bucketid = id, !.at = "bucket"]))

\* for (u32 r = 1; r < WK; r++) : the loop test, then line 603 or line 615.
EnterLoop(hp, me, id, r) ==
  IF r < WK
  THEN [me EXCEPT !.pc = "bar603", !.r = r]
  ELSE EnterDigitK(hp, [me EXCEPT !.r = r], id)

AfterBarrier(hp, me, id) ==
  CASE me.pc = "bar592" ->
         IF id < NBLOCKS THEN [me EXCEPT !.pc = "digit0", !.block = id, !.i = 0]
         ELSE [me EXCEPT !.pc = "bar594"]
    [] me.pc = "bar594" -> [me EXCEPT !.pc = IF id = 0 THEN "clr596" ELSE "bar599"]
    [] me.pc = "bar599" -> EnterLoop(hp, me, id, 1)
    [] me.pc = "bar603" ->
         AtRest(Settle(hp, [me EXCEPT !.pc = "digit", !.bucketid = id,
                                      !.at = "bucket"]))
    [] me.pc = "bar605" -> [me EXCEPT !.pc = IF id = 0 THEN "clr607" ELSE "bar611"]
    [] me.pc = "bar611" -> EnterLoop(hp, me, id, me.r + 1)
    [] me.pc = "bar616" -> ThFresh("done")

\* A faulty barrier, initialised for one waiter: every arrival passes.
BarrierOfOne(t) ==
  /\ ~crashed
  /\ t \in Threads
  /\ th[t].pc \in BarrierPcs
  /\ th' = [th EXCEPT ![t] = AfterBarrier(heap, th[t], t)]
  /\ UNCHANGED <<nthreads, xbitmap, nonce, phase, run, heap, nslots, sols,
                 nsols, xfull, hfull, bfull, barry, crashed, attempts, wcnt,
                 leaves, solroot, first, drains, cdt>>
  /\ waits' = [waits EXCEPT ![t] = @ + 1]

Barrier(t) ==
  /\ ~crashed
  /\ t \in Threads
  /\ th[t].pc \in BarrierPcs
  /\ t \notin barry.waiting
  /\ IF barry.count + 1 = nthreads
     THEN /\ th' = [u \in Threads |->
                      IF u = t \/ u \in barry.waiting
                      THEN AfterBarrier(heap, th[u], u) ELSE th[u]]
          /\ barry' = [count |-> 0, waiting |-> {}]
     ELSE /\ barry' = [count |-> barry.count + 1, waiting |-> barry.waiting \cup {t}]
          /\ UNCHANGED th
  /\ UNCHANGED <<nthreads, xbitmap, nonce, phase, run, heap, nslots, sols,
                 nsols, xfull, hfull, bfull, crashed, attempts, wcnt, leaves,
                 solroot, first, drains, cdt>>
  /\ waits' = [waits EXCEPT ![t] = @ + 1]

\* Lines 595-598: thread 0 clears the overflow counters after digit 0.
Clear0(t) ==
  /\ ~crashed
  /\ t \in Threads
  /\ th[t].pc = "clr596"
  /\ xfull' = 0 /\ bfull' = 0 /\ hfull' = 0
  /\ th' = [th EXCEPT ![t].pc = "bar599"]
  /\ UNCHANGED <<nthreads, xbitmap, nonce, phase, run, heap, nslots, sols,
                 nsols, barry, crashed, attempts, wcnt, leaves, solroot, first, drains, waits,
                 cdt>>

\* Lines 606-610: thread 0 prints and clears the overflow counters.
Clear(t) ==
  /\ ~crashed
  /\ t \in Threads
  /\ th[t].pc = "clr607"
  /\ xfull' = 0 /\ bfull' = 0 /\ hfull' = 0
  /\ th' = [th EXCEPT ![t].pc = "bar611"]
  /\ UNCHANGED <<nthreads, xbitmap, nonce, phase, run, heap, nslots, sols,
                 nsols, barry, crashed, attempts, wcnt, leaves, solroot, first, drains, waits,
                 cdt>>

(***************************************************************************)
(* One insertion into layer r: getslot, the bfull test and the slot write. *)
(* attr is the node, nb the hash bytes written (offset |-> byte).  A write *)
(* past the end of the heap is undefined behaviour: the process dies, or   *)
(* the bytes land in the memory that follows the heap.                     *)
(***************************************************************************)
Insert(t, r, bucketi, attr, nb) ==
  LET slot == getslot(nslots, r, bucketi)
      addr == SlotAddr(r, bucketi, slot)
      old == heap[HeapOf(r)][addr]
      new == [attr |-> attr,
              hash |-> [k \in 0 .. HASHUNITBYTES - 1 |->
                          IF k \in DOMAIN nb THEN nb[k] ELSE old.hash[k]]]
  IN /\ nslots' = getslotAfter(nslots, r, bucketi)
     /\ attempts' = [attempts EXCEPT ![r][bucketi] = @ + 1]
     /\ IF ~SlotFree(slot)
        THEN /\ bfull' \in RacyInc(t, bfull)
             /\ UNCHANGED <<heap, wcnt, crashed>>
        ELSE /\ UNCHANGED bfull
             /\ \/ /\ heap' = [heap EXCEPT ![HeapOf(r)][addr] = new]
                   /\ wcnt' = [wcnt EXCEPT ![r][bucketi][Min(slot, NSLOTS)] = @ + 1]
                   /\ UNCHANGED crashed
                \/ /\ ~InHeap(addr)
                   /\ crashed' = TRUE
                   /\ UNCHANGED <<heap, wcnt>>

(***************************************************************************)
(* digit0: one iteration of the inner loop (one hash of one block).        *)
(***************************************************************************)
\* The leaf written for index idx: an uninitialised tree, setindex, xhash.
Leaf(idx, xhash) ==
  [setindex([bucketid |-> Indet, slotid0 |-> Indet, slotid1 |-> Indet,
             xhash |-> Indet], idx) EXCEPT !.xhash = xhash % NRESTS]

\* bucketid and xhash of the hash ph: its first BUCKBITS, then RESTBITS bits.
Digit0Bucket(nc, idx) == Ph(nc, idx, 0) \div NRESTS

Digit0Xhash(nc, idx) == Ph(nc, idx, 0) % NRESTS

\* memcpy(s.hash->bytes+htl.nextbo, ph+WN/8-hashbytes, hashbytes)
Digit0Bytes(nc, idx) ==
  LET hashbytes == hashsize(0)
      nextbo == htlayout(0).nextbo
  IN [k \in nextbo .. nextbo + hashbytes - 1 |->
        Ph(nc, idx, HASHBYTES - hashbytes + (k - nextbo))]

\* The loop counters after one iteration; past the last block the worker
\* has returned to line 594.
Digit0Advance(me) ==
  LET last == me.i + 1 = HASHESPERBLAKE
      block == IF last THEN me.block + nthreads ELSE me.block
  IN IF block < NBLOCKS
     THEN [me EXCEPT !.i = IF last THEN 0 ELSE me.i + 1, !.block = block]
     ELSE ThFresh("bar594")

Digit0Hash(t) ==
  /\ ~crashed
  /\ t \in Threads
  /\ th[t].pc = "digit0"
  /\ LET me == th[t]
         idx == me.block * HASHESPERBLAKE + me.i
     IN /\ Insert(t, 0, Digit0Bucket(nonce, idx),
                  Leaf(idx, Digit0Xhash(nonce, idx)), Digit0Bytes(nonce, idx))
        /\ leaves' = IF wcnt' # wcnt THEN leaves \cup {idx} ELSE leaves
        /\ th' = [th EXCEPT ![t] = Digit0Advance(me)]
  /\ UNCHANGED <<nthreads, xbitmap, nonce, phase, run, sols, nsols, xfull,
                 hfull, barry, solroot, first, drains, waits, cdt>>

(***************************************************************************)
(* digitodd and digiteven.  The two functions differ in the rest-bits      *)
(* getter (getxhash0, getxhash1: both attr.xhash under XINTREE) and in the *)
(* byte arithmetic that extracts xorbucketid and xhash.                    *)
(***************************************************************************)
\* The byte of the XOR of the two hashes that holds the next digit.
XorByte(htl, pslot0, pslot1) ==
  BitXor(pslot0.hash[htl.prevbo], pslot1.hash[htl.prevbo])

\* digitodd: xorbucketid and xhash.
OddBucket(htl, pslot0, pslot1) == XorByte(htl, pslot0, pslot1) \div NRESTS

OddXhash(htl, pslot0, pslot1) == XorByte(htl, pslot0, pslot1) % NRESTS

\* digiteven: xorbucketid and xhash.
EvenBucket(htl, pslot0, pslot1) == XorByte(htl, pslot0, pslot1) \div NRESTS

EvenXhash(htl, pslot0, pslot1) == XorByte(htl, pslot0, pslot1) % NRESTS

\* xs.hash[i-dunits].word = pslot0->hash[i].word ^ pslot1->hash[i].word
XorWords(htl, pslot0, pslot1) ==
  [k \in 0 .. (htl.prevhashunits - htl.dunits) * WORDBYTES - 1 |->
     BitXor(pslot0.hash[k + htl.dunits * WORDBYTES],
            pslot1.hash[k + htl.dunits * WORDBYTES])]

\* cd.clear(); bsize = getnslots(r-1, bucketid); s1 = 0.
BucketHead(t, prevr) ==
  LET me == th[t]
  IN /\ th' = [th EXCEPT ![t] =
                 AtRest(Settle(heap,
                   [me EXCEPT !.cd = CdClear(RESTBITS, xbitmap, me.cd),
                              !.bsize = getnslots(nslots, prevr, me.bucketid),
                              !.s1 = 0,
                              !.at = "slot"]))]
     /\ nslots' = getnslotsAfter(nslots, prevr, me.bucketid)
     /\ drains' = [drains EXCEPT ![prevr][me.bucketid] = Append(@, t)]

\* The head of the bucket loop of digitodd / digiteven.
DigitBucket(t) ==
  /\ ~crashed
  /\ t \in Threads
  /\ th[t].pc = "digit"
  /\ th[t].at = "bucket"
  /\ BucketHead(t, th[t].r - 1)
  /\ UNCHANGED <<nthreads, xbitmap, nonce, phase, run, heap, sols, nsols,
                 xfull, hfull, bfull, barry, crashed, attempts, wcnt, leaves,
                 solroot, first, waits, cdt>>

\* if (!cd.addslot(s1, xh)) { xfull++; continue; }
DigitXfull(t) ==
  /\ ~crashed
  /\ t \in Threads
  /\ th[t].pc = "digit"
  /\ th[t].at = "slot"
  /\ LET me == th[t]
         pslot1 == SlotAt(heap, me.r - 1, me.bucketid, me.s1)
         xh == IF me.r % 2 = 1 THEN getxhash0(pslot1) ELSE getxhash1(pslot1)
     IN th' = [th EXCEPT ![t] =
                 AtRest(Settle(heap,
                   [me EXCEPT !.cd = CdAddslot(RESTBITS, xbitmap, me.cd, me.s1, xh),
                              !.s1 = me.s1 + 1]))]
  /\ xfull' \in RacyInc(t, xfull)
  /\ UNCHANGED <<nthreads, xbitmap, nonce, phase, run, heap, nslots, sols,
                 nsols, hfull, bfull, barry, crashed, attempts, wcnt, leaves,
                 solroot, first, drains, waits, cdt>>

\* One iteration of the collision loop of digitodd / digiteven.
DigitColl(t) ==
  /\ ~crashed
  /\ t \in Threads
  /\ th[t].pc = "digit"
  /\ th[t].at = "coll"
  /\ LET me == th[t]
         r == me.r
         htl == htlayout(r)
         s0 == CdSlotRet(xbitmap, me.cd)
         pslot0 == SlotAt(heap, r - 1, me.bucketid, s0)
         pslot1 == SlotAt(heap, r - 1, me.bucketid, me.s1)
         xorbucketid == IF r % 2 = 1 THEN OddBucket(htl, pslot0, pslot1)
                        ELSE EvenBucket(htl, pslot0, pslot1)
         xhash == IF r % 2 = 1 THEN OddXhash(htl, pslot0, pslot1)
                  ELSE EvenXhash(htl, pslot0, pslot1)
     IN /\ th' = [th EXCEPT ![t] =
                    AtRest(Settle(heap,
                      [me EXCEPT !.cd = CdSlot(xbitmap, me.cd), !.s0 = s0]))]
        /\ IF equal(htl, pslot0.hash, pslot1.hash)
           THEN /\ hfull' \in RacyInc(t, hfull)
                /\ UNCHANGED <<heap, nslots, bfull, crashed, attempts, wcnt>>
           ELSE /\ Insert(t, r, xorbucketid,
                          Tree(me.bucketid, s0, me.s1, xhash),
                          XorWords(htl, pslot0, pslot1))
                /\ UNCHANGED hfull
  /\ UNCHANGED <<nthreads, xbitmap, nonce, phase, run, sols, nsols, xfull,
                 barry, leaves, solroot, first, drains, waits, cdt>>

(***************************************************************************)
(* digitK and candidate.  candidate() is two steps: the walk into prf with *)
(* the sort, the duplicate test and the fetch-add on nsols; then, at       *)
(* "store", the second walk into sols[soli].                               *)
(***************************************************************************)
DigitKBucket(t) ==
  /\ ~crashed
  /\ t \in Threads
  /\ th[t].pc = "digitK"
  /\ th[t].at = "bucket"
  /\ BucketHead(t, WK - 1)
  /\ UNCHANGED <<nthreads, xbitmap, nonce, phase, run, heap, sols, nsols,
                 xfull, hfull, bfull, barry, crashed, attempts, wcnt, leaves,
                 solroot, first, waits, cdt>>

\* A faulty bound test that lets soli = MAXSOLS through.
StorableInclusive(soli) == soli <= MAXSOLS

\* if (soli < MAXSOLS)
Storable(soli) == soli < MAXSOLS

\* cd.slot() yields a pair with equal hashes that candidate() accepts:
\* soli = nsols++.
DigitKCandidate(t) ==
  /\ ~crashed
  /\ t \in Threads
  /\ th[t].pc = "digitK"
  /\ th[t].at = "coll"
  /\ LET me == th[t]
         s0 == CdSlotRet(xbitmap, me.cd)
         claimed == [me EXCEPT !.cd = CdSlot(xbitmap, me.cd), !.s0 = s0,
                               !.soli = nsols]
     IN /\ nsols' = nsols + 1
        /\ th' = [th EXCEPT ![t] =
                    IF Storable(nsols) THEN [claimed EXCEPT !.at = "store"]
                    ELSE AtRest(Settle(heap, claimed))]
  /\ UNCHANGED <<nthreads, xbitmap, nonce, phase, run, heap, nslots, sols,
                 xfull, hfull, bfull, barry, crashed, attempts, wcnt, leaves,
                 solroot, first, drains, waits, cdt>>

\* if (soli < MAXSOLS) listindices1(WK, t, sols[soli]);
DigitKStore(t) ==
  /\ ~crashed
  /\ t \in Threads
  /\ th[t].pc = "digitK"
  /\ th[t].at = "store"
  /\ LET me == th[t]
     IN /\ sols' = [sols EXCEPT ![me.soli] =
                      listindices1(heap, WK, Xort(me.bucketid, me.s0, me.s1))]
        /\ solroot' = [solroot EXCEPT ![me.soli] =
                         RootOf(Xort(me.bucketid, me.s0, me.s1))]
        /\ th' = [th EXCEPT ![t] = AtRest(Settle(heap, [me EXCEPT !.at = "coll"]))]
  /\ UNCHANGED <<nthreads, xbitmap, nonce, phase, run, heap, nslots, nsols,
                 xfull, hfull, bfull, barry, crashed, attempts, wcnt, leaves,
                 first, drains, waits, cdt>>

\* One step of worker(vp) with tp->id = t.
Worker(t) ==
  \/ Barrier(t)
  \/ Clear0(t)
  \/ Clear(t)
  \/ Digit0Hash(t)
  \/ DigitBucket(t)
  \/ DigitXfull(t)
  \/ DigitColl(t)
  \/ DigitKBucket(t)
  \/ DigitKCandidate(t)
  \/ DigitKStore(t)

Next ==
  \/ SetNonce
  \/ Spawn
  \/ Join
  \/ \E t \in AllThreads : Worker(t)

Spec == Init /\ [][Next]_vars

(***************************************************************************)
(* The same program under a fair scheduler: while some thread of a run can *)
(* take a step, one of them eventually does; the threads are the workers   *)
(* (pthreads) and the driver creating and joining them.  Whether the       *)
(* driver starts another run is its own choice.                            *)
(***************************************************************************)
Running == Spawn \/ Join \/ \E t \in AllThreads : Worker(t)

SpecFair == Init /\ [][Next]_vars /\ WF_vars(Running)

(***************************************************************************)
(* collisiondata on its own: the loop of lines 437-449 (digitodd), 500-511 *)
(* (digiteven) and 554-566 (digitK) over one bucket after another, driven  *)
(* by every sequence of rest values, with the array form (cdt.a) and the   *)
(* XBITMAP form (cdt.b) fed side by side.  For the slots fed since the     *)
(* last clear() cdt records the rest values (fed), the return values of    *)
(* addslot (oka, okb) and the partners yielded for each slot (ya, yb).     *)
(***************************************************************************)
\* collisiondata cd; as a local of a digit function on a solver at rest.
InitCD ==
  /\ nthreads = 1
  /\ xbitmap = FALSE
  /\ Constructed

\* cd.clear() at the head of the bucket loop.
CDClear ==
  /\ cdt.clears < CDMaxClears
  /\ cdt' = [a |-> CdClear(CDRESTBITS, FALSE, cdt.a),
             b |-> CdClear(CDRESTBITS, TRUE, cdt.b),
             cleared |-> TRUE, clears |-> cdt.clears + 1, total |-> cdt.total,
             fed |-> <<>>, oka |-> <<>>, okb |-> <<>>, ya |-> <<>>, yb |-> <<>>]
  /\ UNCHANGED <<nthreads, xbitmap, nonce, phase, run, heap, nslots, sols,
                 nsols, xfull, hfull, bfull, th, barry, crashed, attempts,
                 wcnt, leaves, solroot, first, drains, waits>>

\* One iteration of the slot loop: addslot(s1, xh), then the collision loop.
CDFeed(xh) ==
  /\ cdt.cleared
  /\ cdt.total < CDMaxSlots
  /\ LET s1 == Len(cdt.fed)
         oka == CdAddslotOk(CDRESTBITS, FALSE, cdt.a, xh)
         okb == CdAddslotOk(CDRESTBITS, TRUE, cdt.b, xh)
         a1 == CdAddslot(CDRESTBITS, FALSE, cdt.a, s1, xh)
         b1 == CdAddslot(CDRESTBITS, TRUE, cdt.b, s1, xh)
     IN cdt' = [cdt EXCEPT
                  !.a = IF oka THEN CdDrained(FALSE, a1) ELSE a1,
                  !.b = IF okb THEN CdDrained(TRUE, b1) ELSE b1,
                  !.total = cdt.total + 1,
                  !.fed = Append(cdt.fed, xh),
                  !.oka = Append(cdt.oka, oka),
                  !.okb = Append(cdt.okb, okb),
                  !.ya = Append(cdt.ya, IF oka THEN CdPartners(FALSE, a1) ELSE <<>>),
                  !.yb = Append(cdt.yb, IF okb THEN CdPartners(TRUE, b1) ELSE <<>>)]
  /\ UNCHANGED <<nthreads, xbitmap, nonce, phase, run, heap, nslots, sols,
                 nsols, xfull, hfull, bfull, th, barry, crashed, attempts,
                 wcnt, leaves, solroot, first, drains, waits>>

\* The rest values of the build SpecCD runs.
CDRests == 0 .. NRESTSOf(CDRESTBITS) - 1

NextCD ==
  \/ CDClear
  \/ \E xh \in CDRests : CDFeed(xh)

SpecCD == InitCD /\ [][NextCD]_vars

(***************************************************************************)
(* Vocabulary of the properties.                                           *)
(***************************************************************************)
\* The positions of sols[] written in the current run.
Stored == {k \in 0 .. MAXSOLS - 1 : solroot[k] # NoRoot}

\* The positions run() reports after the join: sols[0..min(nsols,MAXSOLS)).
Reported == 0 .. Min(nsols, MAXSOLS) - 1

Finished == phase = "stopped"

\* The indices digit0 hashes.
IsLeaf(idx) == idx \in 0 .. NLEAVES - 1

Distinct(s) == \A i, j \in 1 .. Len(s) : i # j => s[i] # s[j]

Range(s) == {s[i] : i \in 1 .. Len(s)}

MinOf(s) == CHOOSE m \in Range(s) : \A x \in Range(s) : m <= x

\* Digit k of the XOR of the hashes of the leaves listed in s.
RECURSIVE XorDigit(_, _)
XorDigit(s, k) ==
  IF s = <<>> THEN 0
  ELSE BitXor(Ph(nonce, Head(s), k), XorDigit(Tail(s), k))

\* The j-th aligned block of 2^h entries of s, and its halves.
Block(s, h, j) == SubSeq(s, j * (2 ^ h) + 1, (j + 1) * (2 ^ h))

LeftHalf(b) == SubSeq(b, 1, Len(b) \div 2)

RightHalf(b) == SubSeq(b, (Len(b) \div 2) + 1, Len(b))

BlocksAt(h) == 0 .. (2 ^ (WK - h)) - 1

(***************************************************************************)
(* C1.  Each solution reported after the final barrier is 2^K pairwise     *)
(* distinct leaf indices whose hashes XOR to zero, whatever the number of  *)
(* workers, their interleaving and the overflow drops.                     *)
(* The statement fails: layer 2 shares its slots with bucket 1 of layer 0, *)
(* so the walk of a solution reads layer-2 nodes where leaves were.        *)
(***************************************************************************)
C1_ReportedSolutionsValid ==
  Finished =>
    \A k \in Reported :
      /\ Len(sols[k]) = PROOFSIZE
      /\ Distinct(sols[k])
      /\ \A i \in 1 .. PROOFSIZE : IsLeaf(sols[k][i])
      /\ \A d \in 0 .. NDIGITS - 1 : XorDigit(sols[k], d) = 0

(***************************************************************************)
(* C2.  As claimed: every array stored into sols[soli] is strictly         *)
(* increasing.  The statement fails: the sorted array is candidate()'s     *)
(* local prf; sols[soli] is filled by a second listindices1 walk.          *)
(***************************************************************************)
C2_StoredIncreasing == \A k \in Stored : NoDuplicate(sols[k])

(***************************************************************************)
(* C2, amended.  Every array stored into sols[soli] holds PROOFSIZE        *)
(* pairwise distinct indices, in the order of the listindices1 walk from   *)
(* the accepted node; sorted, it is strictly increasing.                   *)
(***************************************************************************)
C2_StoredDistinctTreeOrder ==
  \A k \in Stored :
    /\ Len(sols[k]) = PROOFSIZE
    /\ Distinct(sols[k])
    /\ NoDuplicate(qsort(sols[k]))
    /\ sols[k] = listindices1(heap, WK, solroot[k])

\* A stored solution of distinct indices that is not increasing.
C2_Witness ==
  \E k \in Stored : Distinct(sols[k]) /\ ~NoDuplicate(sols[k])

(***************************************************************************)
(* C3.  In every reported solution, the XOR of the hashes of the leaves of *)
(* each aligned block of 2^h entries starts with h zero digits.            *)
(* The statement fails for the reason C1 fails.                            *)
(***************************************************************************)
C3_WagnerPrefixes ==
  Finished =>
    \A k \in Reported : \A h \in 1 .. WK : \A j \in BlocksAt(h) :
      LET b == Block(sols[k], h, j)
      IN /\ \A i \in 1 .. Len(b) : IsLeaf(b[i])
         /\ \A d \in 0 .. h - 1 : XorDigit(b, d) = 0

(***************************************************************************)
(* C4.  In every stored solution and every aligned block of 2^h entries,   *)
(* 1 <= h <= K, the minimum of the left half is strictly less than the     *)
(* minimum of the right half, and the first entry of the block is its      *)
(* minimum.                                                                *)
(***************************************************************************)
C4_LeftMinFirst ==
  \A k \in Stored : \A h \in 1 .. WK : \A j \in BlocksAt(h) :
    LET b == Block(sols[k], h, j)
    IN /\ MinOf(LeftHalf(b)) < MinOf(RightHalf(b))
       /\ b[1] = MinOf(b)

\* A stored solution with a descent: its order is the work of orderindices.
C4_Witness ==
  \E k \in Stored :
    /\ \E i \in 1 .. PROOFSIZE - 1 : sols[k][i] > sols[k][i + 1]
    /\ sols[k][1] = MinOf(sols[k])

(***************************************************************************)
(* C5.  As claimed: within one run no two stored solutions hold the same   *)
(* set of indices.  The statement fails: four leaves that collide on digit *)
(* 0 can pair up in more than one way, and each pairing completes to a     *)
(* tree of its own over the same leaves.                                   *)
(***************************************************************************)
C5_NoPermutations ==
  \A j, k \in Stored : j # k => Range(sols[j]) # Range(sols[k])

(***************************************************************************)
(* C5, amended.  Within one run no two positions of sols[] are filled from *)
(* the same node, and no two hold the same sequence of indices: stored     *)
(* solutions are distinct trees, which may have the same leaves.           *)
(***************************************************************************)
C5_DistinctTrees ==
  \A j, k \in Stored :
    j # k => (solroot[j] # solroot[k] /\ sols[j] # sols[k])

\* Two stored solutions over the same leaves.
C5_Witness ==
  \E j, k \in Stored :
    j # k /\ Range(sols[j]) = Range(sols[k]) /\ sols[j] # sols[k]

(***************************************************************************)
(* C6.  With one worker, a second setnonce+run cycle on the same (header,  *)
(* nonce) ends with the nsols and the sols[] contents of the first; what   *)
(* the first run left in nslots and in the arena does not show.            *)
(***************************************************************************)
C6_SecondRunSame ==
  (nthreads = 1 /\ Finished /\ run = 2 /\ first.valid /\ first.nonce = nonce)
    => (nsols = first.nsols /\ sols = first.sols)

\* A second run on the same nonce that ended with a solution.
C6_Witness ==
  /\ nthreads = 1 /\ Finished /\ run = 2
  /\ first.valid /\ first.nonce = nonce
  /\ nsols >= 1 /\ Stored # {}

(***************************************************************************)
(* C7.  Every index digit0 passes to setindex is below NHASHES, and        *)
(* getindex returns the index passed to setindex.                          *)
(* The statement fails: NBLOCKS rounds up, and the last block is hashed    *)
(* whole, so when HASHESPERBLAKE does not divide NHASHES indices from      *)
(* NHASHES on are written as well.                                         *)
(***************************************************************************)
C7_LeafIndicesBelowNHASHES ==
  \A idx \in leaves :
    /\ idx < NHASHES
    /\ getindex(Leaf(idx, 0)) = idx

(***************************************************************************)
(* C8.  In every layer and bucket no slot is written at an index >=        *)
(* NSLOTS: the first NSLOTS insertion attempts write one slot each, a      *)
(* later attempt writes nothing and executes bfull++, and the getnslots    *)
(* of the bucket returns min(attempts, NSLOTS).                            *)
(***************************************************************************)
C8_Slots ==
  ~crashed =>
    /\ \A r \in Layers : \A b \in Buckets :
         /\ wcnt[r][b][NSLOTS] = 0
         /\ \A s \in 0 .. NSLOTS - 1 :
              wcnt[r][b][s] = (IF s < attempts[r][b] THEN 1 ELSE 0)
    /\ \A t \in Threads :
         (th[t].pc \in {"digit", "digitK"} /\ th[t].at # "bucket")
           => th[t].bsize =
                Min(attempts[IF th[t].pc = "digitK" THEN WK - 1 ELSE th[t].r - 1]
                            [th[t].bucketid], NSLOTS)

C8_DropStep ==
  \A r \in Layers : \A b \in Buckets :
    (attempts'[r][b] = attempts[r][b] + 1 /\ attempts[r][b] >= NSLOTS)
      => /\ heap' = heap
         /\ wcnt' = wcnt
         /\ bfull = Indet => bfull' = Indet
         /\ (bfull # Indet /\ nthreads = 1) => bfull' = bfull + 1
         /\ bfull # Indet => bfull' \in 1 .. bfull + 1

C8_BucketFull == []C8_Slots /\ [][C8_DropStep]_vars

\* A bucket that took more than NSLOTS attempts has been drained.
C8_Witness ==
  /\ ~crashed
  /\ \E t \in Threads :
       /\ th[t].pc = "digit" /\ th[t].at # "bucket"
       /\ attempts[th[t].r - 1][th[t].bucketid] > NSLOTS
       /\ th[t].bsize = NSLOTS

(***************************************************************************)
(* C9.  A cleared collisiondata fed slots 0, 1, ... in order yields, for   *)
(* each accepted slot s1, each accepted earlier slot of the same rest      *)
(* value exactly once and nothing else.  The XBITMAP form accepts every    *)
(* slot; the array form rejects a slot whose rest class already holds      *)
(* XFULL slots, and a rejected slot yields nothing and is never yielded.   *)
(***************************************************************************)
EarlierSame(s1) == {s0 \in 0 .. s1 - 1 : cdt.fed[s0 + 1] = cdt.fed[s1 + 1]}

ArrayAccepts(s1) == Cardinality(EarlierSame(s1)) < XFULLOf(CDRESTBITS)

ExactlyOnce(seq, S) == Range(seq) = S /\ Len(seq) = Cardinality(S)

C9_PairsOnce ==
  \A s1 \in 0 .. Len(cdt.fed) - 1 :
    /\ cdt.okb[s1 + 1]
    /\ ExactlyOnce(cdt.yb[s1 + 1], EarlierSame(s1))
    /\ cdt.oka[s1 + 1] = ArrayAccepts(s1)
    /\ ExactlyOnce(cdt.ya[s1 + 1],
                   IF ArrayAccepts(s1)
                   THEN {s0 \in EarlierSame(s1) : ArrayAccepts(s0)}
                   ELSE {})

\* After a second clear(): a slot the array form rejects, for which the
\* XBITMAP form yields XFULL partners, and a slot with two partners in the
\* array form.
C9_Witness ==
  /\ cdt.clears = 2
  /\ \E s1 \in 0 .. Len(cdt.fed) - 1 :
       ~cdt.oka[s1 + 1] /\ Len(cdt.yb[s1 + 1]) >= XFULLOf(CDRESTBITS)
  /\ \E s1 \in 0 .. Len(cdt.fed) - 1 :
       cdt.oka[s1 + 1] /\ Len(cdt.ya[s1 + 1]) >= 2

(***************************************************************************)
(* C10.  Fed the same rest values for slots 0, 1, ..., none of them more   *)
(* than XFULL times, the XBITMAP form and the array form accept the same   *)
(* slots and yield the same partners in the same order for every slot.     *)
(***************************************************************************)
WithinXFULL ==
  \A x \in CDRests :
    Cardinality({i \in 1 .. Len(cdt.fed) : cdt.fed[i] = x})
      <= XFULLOf(CDRESTBITS)

C10_FormsAgree ==
  WithinXFULL => (cdt.ya = cdt.yb /\ cdt.oka = cdt.okb)

\* After a second clear(), within XFULL: a slot with three partners, and
\* slots of two rest values interleaved.
C10_Witness ==
  /\ WithinXFULL
  /\ cdt.clears = 2
  /\ \E s1 \in 0 .. Len(cdt.fed) - 1 : Len(cdt.yb[s1 + 1]) = 3
  /\ \E s1 \in 1 .. Len(cdt.fed) - 1 :
       cdt.yb[s1 + 1] # <<>> /\ cdt.fed[s1] # cdt.fed[s1 + 1]

(***************************************************************************)
(* The nodes digitK hands to candidate() in a finished run: the loops of   *)
(* digitK replayed on layer WK-1 as the run left it.  The size of bucket b *)
(* is what its getnslots returned, min(insertion attempts, NSLOTS).        *)
(***************************************************************************)
KSize(b) == Min(attempts[WK - 1][b], NSLOTS)

RECURSIVE KPairs(_, _, _)
KPairs(b, s1, cd) ==
  IF s1 >= KSize(b) THEN {}
  ELSE LET xh == getxhash0(SlotAt(heap, WK - 1, b, s1))
           cd1 == CdAddslot(RESTBITS, xbitmap, cd, s1, xh)
       IN IF CdAddslotOk(RESTBITS, xbitmap, cd, xh)
          THEN {<<s0, s1>> : s0 \in Range(CdPartners(xbitmap, cd1))}
                 \cup KPairs(b, s1 + 1, CdDrained(xbitmap, cd1))
          ELSE KPairs(b, s1 + 1, cd1)

KCandidates ==
  UNION {{Xort(b, p[1], p[2]) :
            p \in {q \in KPairs(b, 0, CdClear(RESTBITS, xbitmap, CdFresh(RESTBITS))) :
                     equal(htlayout(WK),
                           SlotAt(heap, WK - 1, b, q[1]).hash,
                           SlotAt(heap, WK - 1, b, q[2]).hash)}} :
         b \in Buckets}

\* The proof candidate() reconstructs from t.
ProofOf(t) == listindices1(heap, WK, t)

(***************************************************************************)
(* C11.  A candidate whose reconstructed proof holds an index twice is     *)
(* discarded: it is not counted in nsols and fills no entry of sols[].     *)
(* At the end of a run nsols is the number of candidates with pairwise     *)
(* distinct indices, every entry written was walked from one of them, and  *)
(* the entries not written are as they were.                               *)
(***************************************************************************)
C11_DuplicateDiscarded ==
  Finished =>
    LET good == {t \in KCandidates : Distinct(ProofOf(t))}
    IN /\ nsols = Cardinality(good)
       /\ \A k \in Stored : solroot[k] \in {RootOf(t) : t \in good}
       /\ \A k \in 0 .. MAXSOLS - 1 :
            (k \notin Stored /\ run = 1) => sols[k] = [j \in 1 .. PROOFSIZE |-> 0]
       /\ \A k \in 0 .. MAXSOLS - 1 :
            (k \notin Stored /\ run = 2 /\ first.valid) => sols[k] = first.sols[k]

\* A finished run in which digitK handed candidate() a proof with a
\* repeated index, next to one that was stored.
C11_Witness ==
  /\ Finished
  /\ \E t \in KCandidates : ~Distinct(ProofOf(t))
  /\ Stored # {}

(***************************************************************************)
(* C12.  Workers inside digit functions at the same time are inside the    *)
(* same digit, so no worker reads layer r (digit r+1) while another still  *)
(* writes it (digit r); and while thread 0 clears xfull, bfull and hfull   *)
(* no worker is inside a digit function.                                   *)
(***************************************************************************)
InDigit(t) == th[t].pc \in {"digit0", "digit", "digitK"}

DigitNo(t) ==
  IF th[t].pc = "digit0" THEN 0 ELSE IF th[t].pc = "digit" THEN th[t].r ELSE WK

Clearing(t) == th[t].pc \in {"clr596", "clr607"}

C12_PhasesSeparated ==
  \A t, u \in Threads :
    /\ (InDigit(t) /\ InDigit(u)) => DigitNo(t) = DigitNo(u)
    /\ Clearing(t) => ~InDigit(u)

\* Two workers: one still inside digit 2 while the other waits at the
\* barrier that follows it.
C12_Witness ==
  \E t, u \in Threads :
    /\ t # u
    /\ th[t].pc = "digit" /\ th[t].r = 2 /\ th[t].at = "coll"
    /\ th[u].pc = "bar605" /\ u \in barry.waiting

(***************************************************************************)
(* C13.  A tree node written into a slot of layer r in this run is never   *)
(* overwritten afterwards: as long as the run lasts, the slot holds the    *)
(* node its producer wrote.                                                *)
(* The statement fails: trees[r] = heap[r&1] + r/2, on pointers to whole  *)
(* buckets, places layer                                                   *)
(* r+2 one whole bucket after layer r in the same heap, so slot (b, s) of  *)
(* layer r+2 is slot (b+1, s) of layer r.                                  *)
(***************************************************************************)
NodesKept ==
  \A r \in Layers : \A b \in Buckets : \A s \in 0 .. NSLOTS - 1 :
    (wcnt[r][b][s] >= 1 /\ wcnt'[r][b][s] >= 1)
      => SlotAt(heap', r, b, s).attr = SlotAt(heap, r, b, s).attr

C13_NodesPreserved == [][NodesKept]_vars

(***************************************************************************)
(* C14.  Every slot the solver accesses lies inside the heap of its layer, *)
(* which holds NBUCKETS * NSLOTS slots: no access falls outside, and every *)
(* slot written in a run has an address below HEAPSLOTS.                   *)
(* The statement fails: layer r starts r/2 buckets into a heap that has    *)
(* room for NBUCKETS buckets, so the last r/2 buckets of layers 2, 3, ...  *)
(* lie past its end.                                                       *)
(***************************************************************************)
C14_SlotsInsideHeap ==
  /\ ~crashed
  /\ \A r \in Layers : \A b \in Buckets : \A s \in 0 .. NSLOTS - 1 :
       wcnt[r][b][s] >= 1 => InHeap(SlotAddr(r, b, s))

(***************************************************************************)
(* C15.  While the workers are inside digit r < K, every counter           *)
(* nslots[r&1][b] is the number of getslot calls made on it since the      *)
(* digit began: it was zero when the digit began, in every run.  A worker  *)
(* inside digit r increments only counters of nslots[r&1] and drains only  *)
(* counters of nslots[(r-1)&1], so no counter is both drained and          *)
(* incremented between two barriers.                                       *)
(***************************************************************************)
C15_Counters ==
  \A t \in Threads :
    (InDigit(t) /\ DigitNo(t) < WK) =>
      \A b \in Buckets : nslots[DigitNo(t) % 2][b] = attempts[DigitNo(t)][b]

C15_CounterStep ==
  \A h \in 0 .. 1 : \A b \in Buckets :
    (nslots'[h][b] # nslots[h][b] /\ phase = "running") =>
      \E t \in Threads :
        /\ InDigit(t)
        /\ \/ /\ nslots'[h][b] = nslots[h][b] + 1
              /\ DigitNo(t) < WK /\ h = DigitNo(t) % 2
           \/ /\ nslots'[h][b] = 0
              /\ DigitNo(t) >= 1 /\ h = (DigitNo(t) - 1) % 2

C15_CountersZeroAtStart == []C15_Counters /\ [][C15_CounterStep]_vars

\* A second run whose first left a solution behind: the workers are about
\* to produce layer 1, which the first run had filled, and layer 0 is
\* partly drained.
C15_Witness ==
  /\ run = 2 /\ first.valid /\ first.nsols >= 1
  /\ \E t \in Threads : th[t].pc = "digit" /\ th[t].r = 1
  /\ \A b \in Buckets : attempts[1][b] = 0 /\ nslots[1][b] = 0
  /\ \E b \in Buckets : attempts[0][b] > 0 /\ nslots[0][b] = 0

(***************************************************************************)
(* C16.  No slot of a layer is written twice in a run, and every slot      *)
(* below the size a worker drained from a bucket was written once.  Each   *)
(* bucket is drained at most once and only by the worker whose id is the   *)
(* bucket number modulo nthreads; once the workers have left a digit,      *)
(* every bucket of the layer it read has been drained by that worker.      *)
(***************************************************************************)
\* The layer whose buckets worker t drains.
SourceLayer(t) == IF th[t].pc = "digitK" THEN WK - 1 ELSE th[t].r - 1

DrainedBy(r, b) == drains[r][b] = <<b % nthreads>>

C16_OneWriterOneDrainer ==
  /\ \A r \in Layers : \A b \in Buckets :
       /\ \A s \in 0 .. NSLOTS : wcnt[r][b][s] <= 1
       /\ drains[r][b] \in {<<>>, <<b % nthreads>>}
  /\ \A t \in Threads :
       /\ (th[t].pc \in {"digit", "digitK"} /\ th[t].at # "bucket") =>
            /\ DrainedBy(SourceLayer(t), th[t].bucketid)
            /\ \A s \in 0 .. th[t].bsize - 1 :
                 wcnt[SourceLayer(t)][th[t].bucketid][s] = 1
       /\ th[t].pc \in {"clr607", "bar611"} =>
            \A b \in Buckets : DrainedBy(th[t].r - 1, b)
       /\ th[t].pc = "done" => \A b \in Buckets : DrainedBy(WK - 1, b)

\* Two workers in digit 1: a bucket of layer 1 has taken two insertions,
\* both buckets of layer 0 are drained, worker 1 has left the digit and
\* worker 0 is still inside it.
C16_Witness ==
  /\ nthreads = 2
  /\ \E b \in Buckets : attempts[1][b] >= 2 /\ wcnt[1][b][1] = 1
  /\ \A b \in Buckets : drains[0][b] # <<>>
  /\ th[0].pc = "digit" /\ th[0].r = 1 /\ th[0].at = "coll"
  /\ th[1].pc = "bar605"

(***************************************************************************)
(* The pair a worker inside digitodd / digiteven is about to take from     *)
(* cd.slot(), and what became of it: a pair that is not counted in hfull   *)
(* goes on to getslot, which the history attempts records.                 *)
(***************************************************************************)
AtPair(t) == th[t].pc = "digit" /\ th[t].at = "coll"

PairHash0(t) ==
  SlotAt(heap, th[t].r - 1, th[t].bucketid, CdSlotRet(xbitmap, th[t].cd)).hash

PairHash1(t) == SlotAt(heap, th[t].r - 1, th[t].bucketid, th[t].s1).hash

AllWordsEqual(t) ==
  \A w \in 0 .. htlayout(th[t].r).prevhashunits - 1 :
    WordOf(PairHash0(t), w) = WordOf(PairHash1(t), w)

PairTaken(t) == AtPair(t) /\ th'[t] # th[t]

DroppedAsHfull == attempts' = attempts

(***************************************************************************)
(* C17.  As claimed: a colliding pair is dropped as hfull if and only if   *)
(* all prevhashunits words of the two stored hashes are equal.             *)
(* The statement fails: equal() looks at the last word only, so a pair     *)
(* that differs in an earlier word and agrees in the last is dropped too.  *)
(***************************************************************************)
C17_HfullIffAllWordsEqual ==
  [][\A t \in Threads : PairTaken(t) => (DroppedAsHfull <=> AllWordsEqual(t))]_vars

(***************************************************************************)
(* C18.  A node committed at a layer r >= 1 has slotid0 < slotid1 < the    *)
(* drained size of bucket bucketid of layer r-1, and both slots were       *)
(* written in that bucket in this run; the same holds of the nodes digitK  *)
(* passes to candidate() and of the nodes the stored solutions were walked *)
(* from.                                                                   *)
(***************************************************************************)
\* The size getnslots returned for bucket b of layer r in this run.
DrainedSize(r, b) == Min(attempts[r][b], NSLOTS)

ChildrenLive(r, t) ==
  /\ t.slotid0 < t.slotid1
  /\ t.slotid1 < DrainedSize(r - 1, t.bucketid)
  /\ wcnt[r - 1][t.bucketid][t.slotid0] = 1
  /\ wcnt[r - 1][t.bucketid][t.slotid1] = 1

C18_Commit ==
  \A r \in 1 .. WK - 1 : \A b \in Buckets : \A s \in 0 .. NSLOTS - 1 :
    wcnt'[r][b][s] = wcnt[r][b][s] + 1
      => ChildrenLive(r, SlotAt(heap', r, b, s).attr)

C18_Candidates ==
  /\ \A k \in Stored : ChildrenLive(WK, solroot[k])
  /\ \A t \in Threads :
       (th[t].pc = "digitK" /\ th[t].at = "coll") =>
         /\ ChildrenLive(WK, Xort(th[t].bucketid, CdSlotRet(xbitmap, th[t].cd),
                                  th[t].s1))
         /\ th[t].s1 < th[t].bsize

C18_ChildrenOrdered == []C18_Candidates /\ [][C18_Commit]_vars

\* Layer 2 holds a node whose children are not the first two slots of
\* their bucket, and a solution has been stored.
C18_Witness ==
  /\ Stored # {}
  /\ \E b \in Buckets : \E s \in 0 .. NSLOTS - 1 :
       /\ wcnt[2][b][s] = 1
       /\ SlotAt(heap, 2, b, s).attr.slotid0 >= 1
       /\ SlotAt(heap, 2, b, s).attr.slotid1 >= 3

(***************************************************************************)
(* C19.  Under every interleaving of the workers in digitK: a worker about *)
(* to write a solution holds an index soli < MAXSOLS that no other worker  *)
(* holds and that has not been written; nsols counts the candidates        *)
(* accepted so far, beyond MAXSOLS too; after the final barrier nsols is   *)
(* the number of duplicate-free candidates and every sols[i] with          *)
(* i < min(nsols, MAXSOLS) has been written, and no other entry has.       *)
(***************************************************************************)
Storing(t) == th[t].pc = "digitK" /\ th[t].at = "store"

BarrierWaits == 3 * WK + 1

Exited(t) == t \in Threads /\ th[t].pc = "done"

WaitsInStep ==
  (phase = "running") =>
    /\ barry.count = Cardinality(barry.waiting)
    /\ \A t, u \in Threads :
         waits[t] = waits[u] + (IF t \in barry.waiting THEN 1 ELSE 0)
                             - (IF u \in barry.waiting THEN 1 ELSE 0)
    /\ \A t \in Threads : Exited(t) => waits[t] = BarrierWaits

Started == phase = "running"

AllExited == \A t \in Threads : Exited(t) /\ waits[t] = BarrierWaits

C20_PassUnlessFault ==
  /\ []WaitsInStep
  /\ Started ~> (crashed \/ AllExited)

=============================================================================
